---------------------------- MODULE Spec2Model ----------------------------
(***************************************************************************)
(* A model of the datatools readers:                                       *)
(*   binario.py         binaryfile, the typed binary cursor                *)
(*   readData.py        ensight, planarAverages                            *)
(*   remote_sensing.py  windcube_v1, ESRL_wind_profiler, scintec_profiler  *)
(* Every reader is an independent sequential routine.  Each one has its    *)
(* own group of variables and its own specification (SpecBinario,          *)
(* SpecPlanar, SpecWindcube, SpecProfiler, SpecEnsight); the variables of  *)
(* the readers a specification does not run stay at their idle values.     *)
(***************************************************************************)
EXTENDS Integers, Sequences, FiniteSets, TLC

VARIABLES
    \* ---- binario.binaryfile ----
    bf_stream,   \* the bytes of the file behind self.f
    bf_pos,      \* the position of self.f
    bf_closed,   \* self.f has been closed
    bf_inWith,   \* the object is used as the subject of a 'with' statement
    bf_pc,       \* where the caller is: "idle", "body", "raising", "after", "propagated"
    bf_exc,      \* the exception raised in the body ("none" when there is none)
    bf_log       \* the typed reads made so far, each with what it returned

VARIABLES
    \* ---- readData.planarAverages ----
    pa_fs,           \* the averaging directory: subdirectory name -> rows of the variable file
    pa_pc,           \* "idle", "start", "returned", "failed"
    pa_outputTimes,  \* the ordered subdirectory names getOutputTimes returned
    pa_t,            \* t, the concatenated times
    pa_dt,           \* dt, the concatenated interval lengths
    pa_data          \* data, the concatenated value rows

VARIABLES
    \* ---- remote_sensing.windcube_v1 ----
    wc_pc,      \* "idle", "start", "returned"
    wc_newdf,   \* the merged rows [um, vm] of newdf (one per time and height)
    wc_out      \* the rows [speed, direction] computed for them

VARIABLES
    \* ---- remote_sensing.ESRL_wind_profiler, scintec_profiler ----
    pr_pc,      \* "idle", "start", "returned"
    pr_reader,  \* "ESRL" or "scintec"
    pr_bad,     \* the bad values passed: [kind, vals], kind "None", "scalar", "list"
                \* (ESRL's bad_value) or "pair" (scintec's speed and direction values)
    pr_raw,     \* the rows [HT, SPD, DIR] as they stand in the file
    pr_df       \* the dataframe returned

VARIABLES
    \* ---- readData.ensight ----
    en_pc,      \* "idle", "start", "field", "return", "returned", "failed"
    en_args,    \* [readFieldOnly, dims], the arguments of the call
    en_mesh,    \* the point count written in the mesh file
    en_file,    \* the field file: [tag, points, rank], points * rank value rows
    en_dims,    \* the local dims
    en_xyz,     \* the locals x, y, z, or "unbound" while they are not assigned
    en_fieldDim,\* the local fieldDim
    en_field,   \* the local field: dims rows of fieldDim columns
    en_err      \* the exception that ended the call ("none" when none did)

VARIABLES
    \* ---- readData.structuredVTK ----
    vtk_pc,     \* "idle", "start", "header", "grid", "fields", "close", "returned", "failed"
    vtk_file,   \* the file: [dims, origin, spacing, nFields, fieldDim, defect]
    vtk_open,   \* the handle f is open
    vtk_dims,   \* the local dims
    vtk_axes,   \* the locals x, y, z (coordinates in halves)
    vtk_field,  \* the local field: one array per field read so far
    vtk_err     \* the exception that ended the call ("none" when none did)

VARIABLES
    \* ---- remote_sensing.ARL_wind_profiler ----
    arl_pc,         \* "idle", "start", "loop", "returned", "failed"
    arl_env,        \* the module namespace: what range_gates and header are bound to
    arl_file,       \* the file: a list of blocks, each a list of rows
    arl_i,          \* the blocks read so far
    arl_dataframes, \* the local dataframes
    arl_df,         \* the dataframe returned
    arl_err         \* the exception that ended the call ("none" when none did)

VARIABLES
    \* ---- WRF.viz.Visualization2D ----
    vz_grid,    \* self.Nx, self.Ny, self.Ntimes, self.ds of the object
    vz_iplot,   \* self.iplot: [exists, kwargs], kwargs the current selection
    vz_last     \* the last call made on the object and what it did

bf_vars == <<bf_stream, bf_pos, bf_closed, bf_inWith, bf_pc, bf_exc, bf_log>>
pa_vars == <<pa_fs, pa_pc, pa_outputTimes, pa_t, pa_dt, pa_data>>
wc_vars == <<wc_pc, wc_newdf, wc_out>>
pr_vars == <<pr_pc, pr_reader, pr_bad, pr_raw, pr_df>>
en_vars == <<en_pc, en_args, en_mesh, en_file, en_dims, en_xyz, en_fieldDim, en_field, en_err>>
vtk_vars == <<vtk_pc, vtk_file, vtk_open, vtk_dims, vtk_axes, vtk_field, vtk_err>>
arl_vars == <<arl_pc, arl_env, arl_file, arl_i, arl_dataframes, arl_df, arl_err>>
vz_vars == <<vz_grid, vz_iplot, vz_last>>

vars == <<bf_vars, pa_vars, wc_vars, pr_vars, en_vars, vtk_vars, arl_vars, vz_vars>>

\* What a step of one reader leaves alone: the variables of the others.
BfOthers == <<pa_vars, wc_vars, pr_vars, en_vars, vtk_vars, arl_vars, vz_vars>>
PaOthers == <<bf_vars, wc_vars, pr_vars, en_vars, vtk_vars, arl_vars, vz_vars>>
WcOthers == <<bf_vars, pa_vars, pr_vars, en_vars, vtk_vars, arl_vars, vz_vars>>
PrOthers == <<bf_vars, pa_vars, wc_vars, en_vars, vtk_vars, arl_vars, vz_vars>>
EnOthers == <<bf_vars, pa_vars, wc_vars, pr_vars, vtk_vars, arl_vars, vz_vars>>
VtkOthers == <<bf_vars, pa_vars, wc_vars, pr_vars, en_vars, arl_vars, vz_vars>>
ArlOthers == <<bf_vars, pa_vars, wc_vars, pr_vars, en_vars, vtk_vars, vz_vars>>
VzOthers == <<bf_vars, pa_vars, wc_vars, pr_vars, en_vars, vtk_vars, arl_vars>>

---------------------------------------------------------------------------
(***************************************************************************)
(* Small helpers.                                                          *)
(***************************************************************************)
Min(a, b) == IF a <= b THEN a ELSE b

RECURSIVE Pow(_, _)
Pow(b, e) == IF e = 0 THEN 1 ELSE b * Pow(b, e - 1)

RECURSIVE SumSeq(_)
SumSeq(s) == IF s = <<>> THEN 0 ELSE Head(s) + SumSeq(Tail(s))

---------------------------------------------------------------------------
(***************************************************************************)
(* binario.py: struct's native formats on the LP64 build the module is     *)
(* written for ('l' is 8 bytes, little-endian, two's complement, IEEE 754) *)
(***************************************************************************)

\* The typed read methods of binaryfile.
ReadOps == {"read_int1", "read_int2", "read_int4", "read_int8", "read_float", "read_double"}

\* The struct format character each method unpacks with.
FormatChar(op) ==
    CASE op = "read_int1"   -> "b"
      [] op = "read_int2"   -> "h"
      [] op = "read_int4"   -> "i"
      [] op = "read_int8"   -> "l"
      [] op = "read_float"  -> "f"
      [] op = "read_double" -> "d"

\* struct.calcsize of one item of the format character.
CalcSize(c) ==
    CASE c = "b" -> 1
      [] c = "h" -> 2
      [] c = "i" -> 4
      [] c = "l" -> 8
      [] c = "f" -> 4
      [] c = "d" -> 8

\* The number of bytes each method asks self.f.read for, per value.
Width(op) == CalcSize(FormatChar(op))

\* (mutant) the integer read high byte first.
DecodeInt_BigEndian(bytes) ==
    LET n   == Len(bytes)
        top == IF bytes[1] >= 128 THEN bytes[1] - 256 ELSE bytes[1]
        low == SumSeq([k \in 1..(n - 1) |-> bytes[k + 1] * Pow(256, n - k - 1)])
    IN  low + top * Pow(256, n - 1)

\* A little-endian two's complement integer of 1, 2 or 4 bytes.
DecodeInt(bytes) ==
    LET n   == Len(bytes)
        top == IF bytes[n] >= 128 THEN bytes[n] - 256 ELSE bytes[n]
        low == SumSeq([k \in 1..(n - 1) |-> bytes[k] * Pow(256, k - 1)])
    IN  low + top * Pow(256, n - 1)

\* An unsigned 16-bit limb.
U16(b0, b1) == b0 + 256 * b1

\* A 64-bit integer does not fit the checker's integers: it is kept as
\* hi * 2^32 + mid * 2^16 + lo with hi signed and mid, lo in 0..65535.
DecodeInt8(bytes) ==
    [hi  |-> DecodeInt(SubSeq(bytes, 5, 8)),
     mid |-> U16(bytes[3], bytes[4]),
     lo  |-> U16(bytes[1], bytes[2])]

RECURSIVE Normalise(_, _)
Normalise(num, exp) ==
    IF num # 0 /\ num % 2 = 0 THEN Normalise(num \div 2, exp + 1)
                             ELSE [num |-> num, exp |-> exp]

\* An IEEE 754 binary32: the value is (-1)^sign * num * 2^exp with num odd.
DecodeFloat(bytes) ==
    LET sign == bytes[4] \div 128
        e    == (bytes[4] % 128) * 2 + bytes[3] \div 128
        m    == (bytes[3] % 128) * 65536 + bytes[2] * 256 + bytes[1]
    IN  IF e = 255 THEN [kind |-> IF m = 0 THEN "inf" ELSE "nan", sign |-> sign, num |-> 0, exp |-> 0]
        ELSE IF e = 0 /\ m = 0 THEN [kind |-> "zero", sign |-> sign, num |-> 0, exp |-> 0]
        ELSE LET v == IF e = 0 THEN Normalise(m, -149)
                               ELSE Normalise(8388608 + m, e - 150)
             IN  [kind |-> "num", sign |-> sign, num |-> v.num, exp |-> v.exp]

\* An IEEE 754 binary64, kept as its fields: sign, biased exponent and the
\* 52-bit fraction as limbs of 20, 16 and 16 bits.
DecodeDouble(bytes) ==
    [kind |-> "double",
     sign |-> bytes[8] \div 128,
     exp  |-> (bytes[8] % 128) * 16 + bytes[7] \div 16,
     frac |-> <<(bytes[7] % 16) * 65536 + bytes[6] * 256 + bytes[5],
                U16(bytes[3], bytes[4]), U16(bytes[1], bytes[2])>>]

\* One item of struct.unpack for a format character.
DecodeItem(c, bytes) ==
    CASE c \in {"b", "h", "i"} -> DecodeInt(bytes)
      [] c = "l"               -> DecodeInt8(bytes)
      [] c = "f"               -> DecodeFloat(bytes)
      [] c = "d"               -> DecodeDouble(bytes)

\* The format string each method hands to struct.unpack: for N = 1 the bare
\* character; for N # 1 the character with the count formatted in front of
\* it.  read_int1 does not call .format(N): its format string is the literal
\* '{:d}b', which struct rejects ("bad char in struct format").
FormatString(op, N) ==
    IF N = 1 THEN [valid |-> TRUE, count |-> 1, char |-> FormatChar(op)]
    ELSE IF op = "read_int1" THEN [valid |-> FALSE, count |-> 0, char |-> "b"]
    ELSE [valid |-> TRUE, count |-> N, char |-> FormatChar(op)]

\* struct.unpack(fmt, data): struct.error for a bad format and for a buffer
\* that is not exactly calcsize(fmt) bytes long; else the tuple of items.
Unpack(fmt, data) ==
    IF ~fmt.valid THEN [ok |-> FALSE, err |-> "bad char in struct format", items |-> <<>>]
    ELSE IF Len(data) # fmt.count * CalcSize(fmt.char)
         THEN [ok |-> FALSE, err |-> "unpack requires a buffer", items |-> <<>>]
    ELSE LET w == CalcSize(fmt.char)
         IN  [ok |-> TRUE, err |-> "none",
              items |-> [k \in 1..fmt.count |->
                            DecodeItem(fmt.char, SubSeq(data, (k - 1) * w + 1, k * w))]]

\* self.f.read(n): the next n bytes, or those that remain when fewer do.
FileRead(stream, pos, n) ==
    LET m == Min(n, Len(stream) - pos)
    IN  [data |-> SubSeq(stream, pos + 1, pos + m), pos |-> pos + m]

\* A typed read: self.f.read(N*width), struct.unpack, then [0] for N = 1 and
\* [0:N] otherwise.  The position has moved even when unpack raises.
TypedRead(op, N, stream, pos) ==
    LET r == FileRead(stream, pos, N * Width(op))
        u == Unpack(FormatString(op, N), r.data)
    IN  [pos |-> r.pos, ok |-> u.ok, err |-> u.err,
         value |-> IF ~u.ok THEN <<>>
                   ELSE IF N = 1 THEN u.items[1]
                   ELSE SubSeq(u.items, 1, N)]


\* (mutant) an __exit__ that closes the stream on the normal path only.
Exit_OnlyOnSuccess(exc_type) ==
    [closed |-> exc_type = "none", printed |-> exc_type # "none", ret |-> "self"]

\* __exit__(exc_type, exc_value, traceback): closes self.f, prints the
\* exception when there is one, and returns self on every path.
Exit(exc_type) ==
    [closed |-> TRUE, printed |-> exc_type # "none", ret |-> "self"]

\* The truth value Python gives what __exit__ returned: an instance of a
\* class that defines neither __nonzero__ nor __len__ is true.
Truthy(ret) == ret \notin {"False", "None"}

---------------------------------------------------------------------------
(***************************************************************************)
(* readData.py: planarAverages.  Times and subdirectory names are small    *)
(* integers; a row of a variable file is [t, dt, d], d standing for the    *)
(* value columns a[:,2:] of the row.                                       *)
(***************************************************************************)
MaxDirs == 2       \* timestep subdirectories in the averaging directory
MaxTime == 2       \* times and subdirectory names range over 0..MaxTime

\* The sequence of the elements of a set of numbers, ascending.
RECURSIVE SortedSeq(_)
SortedSeq(S) ==
    IF S = {} THEN <<>>
    ELSE LET m == CHOOSE x \in S : \A y \in S : x <= y
         IN  <<m>> \o SortedSeq(S \ {m})

\* getDataLayout.getOutputTimes: the subdirectories whose names are numbers,
\* ordered by the number they name, and how many there are.
getOutputTimes(fs) ==
    [nTimes |-> Cardinality(DOMAIN fs), outputTimes |-> SortedSeq(DOMAIN fs)]

\* (mutant) an argmax that gives the position after the last one when no
\* position is true, so that every row is kept.
ArgMax_PastTheEndWhenNone(b) ==
    IF \E k \in 1..Len(b) : b[k]
    THEN CHOOSE k \in 1..Len(b) : b[k] /\ \A j \in 1..(k - 1) : ~b[j]
    ELSE Len(b) + 1

\* np.argmax over a boolean array: the first position that is true, and the
\* first position of the array when none is.  Positions count from 1 here,
\* so that t[0:index] is the rows before position ArgMax.
ArgMax(b) ==
    IF \E k \in 1..Len(b) : b[k]
    THEN CHOOSE k \in 1..Len(b) : b[k] /\ \A j \in 1..(k - 1) : ~b[j]
    ELSE 1

\* (mutant) the truncation with > in place of >=: the row at the restart
\* time itself is kept.
TruncationIndex_Strict(a, i, nTimes, outputTimes) ==
    IF i < nTimes - 1
    THEN LET tNext == outputTimes[i + 2]
         IN  ArgMax([k \in 1..Len(a) |-> a[k].t > tNext]) - 1
    ELSE Len(a)

\* The number of rows of file a that iteration i of the loop keeps: index.
TruncationIndex(a, i, nTimes, outputTimes) ==
    IF i < nTimes - 1
    THEN LET tNext == outputTimes[i + 2]
         IN  ArgMax([k \in 1..Len(a) |-> a[k].t >= tNext]) - 1
    ELSE Len(a)

\* The variable files: every strictly increasing time column over 0..MaxTime.
TimeColumns == {SortedSeq(S) : S \in (SUBSET (0..MaxTime)) \ {{}}}

FileOf(name, col) == [k \in 1..Len(col) |-> [t |-> col[k], dt |-> 1, d |-> 10 * name + k]]

PaIdle ==
    /\ pa_fs = <<>>
    /\ pa_pc = "idle"
    /\ pa_outputTimes = <<>>
    /\ pa_t = <<>>
    /\ pa_dt = <<>>
    /\ pa_data = <<>>

\* An averaging directory with 1..MaxDirs timestep subdirectories.
PaInit ==
    /\ \E names \in (SUBSET (0..MaxTime)) \ {{}} :
          /\ Cardinality(names) <= MaxDirs
          /\ \E cols \in [names -> TimeColumns] :
                pa_fs = [n \in names |-> FileOf(n, cols[n])]
    /\ pa_pc = "start"
    /\ pa_outputTimes = <<>>
    /\ pa_t = <<>>
    /\ pa_dt = <<>>
    /\ pa_data = <<>>

\* One iteration of the loop over the time directories, from the lists acc
\* built so far.  genfromtxt gives a one-dimensional array for a file of one
\* row, and a[:,0] then raises.
LoopBody(acc, i, fs, nTimes, outputTimes) ==
    LET a     == fs[outputTimes[i + 1]]
        index == TruncationIndex(a, i, nTimes, outputTimes)
        keep  == SubSeq(a, 1, index)
    IN  IF Len(a) < 2
        THEN [acc EXCEPT !.failed = TRUE]
        ELSE [failed |-> FALSE,
              t    |-> acc.t \o [k \in 1..Len(keep) |-> keep[k].t],
              dt   |-> acc.dt \o [k \in 1..Len(keep) |-> keep[k].dt],
              data |-> acc.data \o [k \in 1..Len(keep) |-> keep[k].d]]

\* for i in range(nTimes), from iteration i on; an exception ends the loop.
RECURSIVE Loop(_, _, _, _, _)
Loop(acc, i, fs, nTimes, outputTimes) ==
    IF i >= nTimes \/ acc.failed THEN acc
    ELSE Loop(LoopBody(acc, i, fs, nTimes, outputTimes), i + 1, fs, nTimes, outputTimes)

\* planarAverages(averagingDirectory, varName): find the time directories,
\* loop over them, return the concatenated arrays.
PlanarAverages ==
    /\ pa_pc = "start"
    /\ LET layout == getOutputTimes(pa_fs)
           r == Loop([failed |-> FALSE, t |-> <<>>, dt |-> <<>>, data |-> <<>>],
                     0, pa_fs, layout.nTimes, layout.outputTimes)
       IN  /\ pa_outputTimes' = layout.outputTimes
           /\ pa_pc' = IF r.failed THEN "failed" ELSE "returned"
           /\ pa_t' = r.t
           /\ pa_dt' = r.dt
           /\ pa_data' = r.data
    /\ UNCHANGED pa_fs
    /\ UNCHANGED PaOthers

PaNext == PlanarAverages

---------------------------------------------------------------------------
(***************************************************************************)
(* binario.py: the files read and the caller's steps.                      *)
(***************************************************************************)
MaxReads == 4      \* typed reads a caller makes on one binaryfile
MaxN     == 2      \* largest N a caller passes to a typed read

\* The bytes of the 4-byte integers 1, 2, 3 and of the 4-byte float 2.5.
ScenarioFile ==
    <<1, 0, 0, 0,  2, 0, 0, 0,  3, 0, 0, 0,  0, 0, 32, 64>>

\* A second file: the 4-byte integer -2, the float -1.5, and bytes with the
\* sign bit set and clear in every position of a 2-byte and a 4-byte integer.
SignFile ==
    <<254, 255, 255, 255,  0, 0, 192, 191,  128, 0, 255, 127>>

\* The files a binaryfile is opened on: the two files and some of their
\* prefixes (the empty file, and files that end inside a value).
Streams ==
    {SubSeq(f, 1, j) : f \in {ScenarioFile, SignFile}, j \in {0, 3, 6, 12}}
        \cup {ScenarioFile}

BfIdle ==
    /\ bf_stream = <<>>
    /\ bf_pos = 0
    /\ bf_closed = TRUE
    /\ bf_inWith = FALSE
    /\ bf_pc = "idle"
    /\ bf_exc = "none"
    /\ bf_log = <<>>

\* binaryfile(path): __init__ opens the file; __enter__ returns self.
BfInit ==
    /\ bf_stream \in Streams
    /\ bf_pos = 0
    /\ bf_closed = FALSE
    /\ bf_inWith \in BOOLEAN
    /\ bf_pc = "body"
    /\ bf_exc = "none"
    /\ bf_log = <<>>

\* The caller calls one typed read.  struct.error leaves the body: to the
\* 'with' statement when there is one, else to the caller's caller.
BfRead(op, N) ==
    /\ bf_pc = "body"
    /\ Len(bf_log) < MaxReads
    /\ LET r == TypedRead(op, N, bf_stream, bf_pos)
       IN  /\ bf_pos' = r.pos
           /\ bf_log' = Append(bf_log, [op |-> op, N |-> N, before |-> bf_pos,
                                        after |-> r.pos, ok |-> r.ok,
                                        err |-> r.err, value |-> r.value])
           /\ bf_exc' = IF r.ok THEN bf_exc ELSE "struct.error"
           /\ bf_pc' = IF r.ok THEN "body"
                       ELSE IF bf_inWith THEN "raising" ELSE "propagated"
    /\ UNCHANGED <<bf_stream, bf_closed, bf_inWith>>
    /\ UNCHANGED BfOthers

\* The body raises an error of its own.
BfBodyRaise ==
    /\ bf_pc = "body"
    /\ bf_exc' = "Exception"
    /\ bf_pc' = IF bf_inWith THEN "raising" ELSE "propagated"
    /\ UNCHANGED <<bf_stream, bf_pos, bf_closed, bf_inWith, bf_log>>
    /\ UNCHANGED BfOthers

\* The 'with' statement ends: it calls __exit__ with the pending exception
\* (or with None) and swallows the exception when __exit__ returns a true
\* value; the statements after the scope then run.
BfWithExit ==
    /\ bf_inWith
    /\ bf_pc \in {"body", "raising"}
    /\ LET x == Exit(bf_exc)
       IN  /\ bf_closed' = (bf_closed \/ x.closed)
           /\ bf_pc' = IF bf_exc = "none" \/ Truthy(x.ret) THEN "after"
                                                           ELSE "propagated"
    /\ UNCHANGED <<bf_stream, bf_pos, bf_inWith, bf_exc, bf_log>>
    /\ UNCHANGED BfOthers

\* Without 'with' the caller just goes on: the class has no close method.
BfReturn ==
    /\ ~bf_inWith
    /\ bf_pc = "body"
    /\ bf_pc' = "after"
    /\ UNCHANGED <<bf_stream, bf_pos, bf_closed, bf_inWith, bf_exc, bf_log>>
    /\ UNCHANGED BfOthers

BfNext ==
    \/ \E op \in ReadOps, N \in 1..MaxN : BfRead(op, N)
    \/ BfBodyRaise
    \/ BfWithExit
    \/ BfReturn


---------------------------------------------------------------------------
(***************************************************************************)
(* remote_sensing.py: windcube_v1, the speed and direction of the merged   *)
(* rows.  Wind components are small integers (m/s); angles are in          *)
(* thousandths of a degree and speeds in thousandths of a m/s, rounded     *)
(* down, so that the floating-point results at the compass points and on   *)
(* the diagonals (multiples of 45 degrees) are exact.                      *)
(***************************************************************************)
MaxComp  == 2      \* wind components um, vm range over -MaxComp..MaxComp
MaxPairs == 2      \* rows of newdf

Abs(x) == IF x < 0 THEN -x ELSE x

\* 180/pi * arctan(a/b) for 0 <= a <= b, b > 0, in thousandths of a degree.
ArctanRatio(a, b) ==
    CASE a = 0                -> 0
      [] a = b                -> 45000
      [] 2 * a = b            -> 26565
      [] 3 * a = b            -> 18435
      [] 3 * a = 2 * b        -> 33690
      [] 4 * a = b            -> 14036
      [] 4 * a = 3 * b        -> 36870

\* 180/pi * np.arctan2(y, x), in thousandths of a degree: in (-180, 180],
\* 0 for x = y = 0.
Arctan2(y, x) ==
    LET ay == Abs(y)
        ax == Abs(x)
        theta == IF ax = 0 /\ ay = 0 THEN 0
                 ELSE IF ay <= ax THEN ArctanRatio(ay, ax)
                 ELSE 90000 - ArctanRatio(ax, ay)
    IN  IF x >= 0 THEN (IF y >= 0 THEN theta ELSE -theta)
        ELSE IF y >= 0 THEN 180000 - theta
        ELSE -(180000 - theta)

\* The largest q in lo..hi with q * q <= n (lo * lo <= n < (hi + 1)^2).
RECURSIVE ISqrt(_, _, _)
ISqrt(n, lo, hi) ==
    IF lo = hi THEN lo
    ELSE LET mid == (lo + hi + 1) \div 2
         IN  IF mid * mid <= n THEN ISqrt(n, mid, hi) ELSE ISqrt(n, lo, mid - 1)

\* np.sqrt(um**2 + vm**2), in thousandths, rounded down.
Speed(um, vm) ==
    ISqrt(1000000 * (um * um + vm * vm), 0, 1000 * (Abs(um) + Abs(vm)))

\* (mutant) the direction with the arguments of arctan2 exchanged.
Direction_SwappedArguments(um, vm) ==
    LET raw == 270000 - Arctan2(um, vm)
    IN  IF raw > 360000 THEN raw - 360000 ELSE raw

\* (mutant) the direction without the wrap of line 88.
Direction_NoWrap(um, vm) == 270000 - Arctan2(vm, um)

\* Lines 87-88: 270 - 180/pi*arctan2(vm, um), less 360 where it is over 360.
Direction(um, vm) ==
    LET raw == 270000 - Arctan2(vm, um)
    IN  IF raw > 360000 THEN raw - 360000 ELSE raw

Components == (-MaxComp)..MaxComp

WcIdle ==
    /\ wc_pc = "idle"
    /\ wc_newdf = <<>>
    /\ wc_out = <<>>

\* The merged table: one row [um, vm] per time and height.
WcInit ==
    /\ wc_pc = "start"
    /\ \E n \in 1..MaxPairs :
          wc_newdf \in [1..n -> [um : Components, vm : Components]]
    /\ wc_out = <<>>

\* Lines 85-95: the calculated columns of every row, returned.
WindcubeV1 ==
    /\ wc_pc = "start"
    /\ wc_out' = [k \in 1..Len(wc_newdf) |->
                     [speed     |-> Speed(wc_newdf[k].um, wc_newdf[k].vm),
                      direction |-> Direction(wc_newdf[k].um, wc_newdf[k].vm)]]
    /\ wc_pc' = "returned"
    /\ UNCHANGED wc_newdf
    /\ UNCHANGED WcOthers

WcNext == WindcubeV1

---------------------------------------------------------------------------
(***************************************************************************)
(* remote_sensing.py: the bad-value flagging of ESRL_wind_profiler and of  *)
(* scintec_profiler.  Column values are integers: ESRL's as written,       *)
(* scintec's in hundredths (99.99 is 9999, 999.9 is 99990).                *)
(***************************************************************************)
MaxRows  == 2      \* data rows in a profiler file
MaxCodes == 2      \* codes in a list passed as bad_value

ESRLBadValue == 999999         \* bad_value=999999
ScintecBadSpeed == 9999        \* bad_speed_value=99.99
ScintecBadDirection == 99990   \* bad_direction_value=999.9
GoodValues == {7}              \* measurements that are no code

\* np.nan, the missing value: a number no file holds.
NaN == -1

\* The values a speed or a direction holds in a file.
ColumnValues == GoodValues \cup {ESRLBadValue, ScintecBadSpeed, ScintecBadDirection}

\* The sentinel codes a caller passes.
Codes == {ESRLBadValue, ScintecBadSpeed, ScintecBadDirection}

\* df.loc[df[col]==val, col] = np.nan (NaN equals nothing, itself included).
FlagColumn(df, col, val) ==
    [k \in 1..Len(df) |->
        IF df[k][col] # NaN /\ df[k][col] = val THEN [df[k] EXCEPT ![col] = NaN]
                                               ELSE df[k]]

\* (mutant) the direction flagged where the speed is bad.
FlagBoth_SpeedMask(df, spd, dir, val) ==
    LET a == FlagColumn(df, spd, val)
    IN  [k \in 1..Len(df) |->
            IF df[k][spd] = val THEN [a[k] EXCEPT ![dir] = NaN] ELSE a[k]]

\* The two statements that flag one code in the speed and direction columns.
FlagBoth(df, spd, dir, val) == FlagColumn(FlagColumn(df, spd, val), dir, val)

\* for val in bad_value: flag both columns.
RECURSIVE FlagEach(_, _)
FlagEach(df, vals) ==
    IF vals = <<>> THEN df
    ELSE FlagEach(FlagBoth(df, "SPD", "DIR", Head(vals)), Tail(vals))

\* Iterating bad_value raises TypeError when it is a number.
IsIterable(bad) == bad.kind = "list"

\* Lines 141-150: HT to metres, then the flagging of bad_value.
ESRLFlag(df, height_conversion_to_m, bad) ==
    LET d == [k \in 1..Len(df) |-> [df[k] EXCEPT !.HT = df[k].HT * height_conversion_to_m]]
    IN  IF bad.kind = "None" THEN d
        ELSE IF IsIterable(bad) THEN FlagEach(d, bad.vals)
        ELSE FlagBoth(d, "SPD", "DIR", bad.vals[1])

\* Lines 225-226 (the columns are 'wind speed' and 'wind direction').
ScintecFlag(df, bad_speed_value, bad_direction_value) ==
    FlagColumn(FlagColumn(df, "SPD", bad_speed_value), "DIR", bad_direction_value)

\* The lists of codes a caller passes as bad_value.
CodeLists == UNION {[1..n -> Codes] : n \in 0..MaxCodes}

ProfilerRows == [HT : {1}, SPD : ColumnValues, DIR : ColumnValues]

PrIdle ==
    /\ pr_pc = "idle"
    /\ pr_reader = "none"
    /\ pr_bad = [kind |-> "None", vals |-> <<>>]
    /\ pr_raw = <<>>
    /\ pr_df = <<>>

PrInit ==
    /\ pr_pc = "start"
    /\ \E n \in 1..MaxRows : pr_raw \in [1..n -> ProfilerRows]
    /\ \/ /\ pr_reader = "ESRL"
          /\ pr_bad \in {[kind |-> "None", vals |-> <<>>]}
                         \cup {[kind |-> "scalar", vals |-> <<c>>] : c \in Codes}
                         \cup {[kind |-> "list", vals |-> l] : l \in CodeLists}
       \/ /\ pr_reader = "scintec"
          /\ pr_bad \in {[kind |-> "pair", vals |-> <<a, b>>] : a, b \in Codes}
    /\ pr_df = <<>>

\* ESRL_wind_profiler(fname, height_conversion_to_m=1000.0, bad_value)
ESRLWindProfiler ==
    /\ pr_pc = "start"
    /\ pr_reader = "ESRL"
    /\ pr_df' = ESRLFlag(pr_raw, 1000, pr_bad)
    /\ pr_pc' = "returned"
    /\ UNCHANGED <<pr_reader, pr_bad, pr_raw>>
    /\ UNCHANGED PrOthers

\* scintec_profiler(fname, bad_speed_value, bad_direction_value)
ScintecProfiler ==
    /\ pr_pc = "start"
    /\ pr_reader = "scintec"
    /\ pr_df' = ScintecFlag(pr_raw, pr_bad.vals[1], pr_bad.vals[2])
    /\ pr_pc' = "returned"
    /\ UNCHANGED <<pr_reader, pr_bad, pr_raw>>
    /\ UNCHANGED PrOthers

PrNext == ESRLWindProfiler \/ ScintecProfiler

---------------------------------------------------------------------------
(***************************************************************************)
(* readData.py: ensight.  A mesh file holds a point count and three        *)
(* coordinates per point; a field file holds a type tag and one value per  *)
(* row, points * rank of them.  Values are numbered in file order.         *)
(***************************************************************************)
MaxPoints == 2     \* point counts (in the mesh file, in the field file, passed as dims)

\* The type tags a field file starts with; "other" is any unrecognised line.
Tags == {"scalar", "vector", "tensor", "other"}

\* The value rows of a mesh file of n points and of a field file.
MeshValues(n) == [k \in 1..(3 * n) |-> 100 + k]
FieldValues(file) == [k \in 1..(file.points * file.rank) |-> k]

\* np.genfromtxt(fname, skip_header=.., max_rows=max_rows) on a file with
\* these value rows: ValueError for max_rows < 1; at most max_rows rows; the
\* result is squeezed, a single value giving a zero-dimensional array.
GenFromTxt(values, max_rows) ==
    IF max_rows < 1
    THEN [ok |-> FALSE, err |-> "ValueError", ndim |-> 0, data |-> <<>>]
    ELSE LET rows == SubSeq(values, 1, Min(Len(values), max_rows))
         IN  [ok |-> TRUE, err |-> "none",
              ndim |-> IF Len(rows) = 1 THEN 0 ELSE 1, data |-> rows]

\* data[lo:hi] of a one-dimensional array (both ends clipped to its length).
Slice(data, lo, hi) == SubSeq(data, Min(lo, Len(data)) + 1, Min(hi, Len(data)))

\* Lines 179-187: fieldDim from the type tag; 0 when no branch matches.
FieldDimOf(dataType) ==
    CASE dataType = "scalar" -> 1
      [] dataType = "vector" -> 3
      [] dataType = "tensor" -> 9
      [] OTHER               -> 0

\* Lines 193-197: the field table of dims rows and fieldDim columns, column i
\* filled from data[i*dims:(i+1)*dims].  Indexing a zero-dimensional array
\* raises IndexError; a run of neither dims values nor one value (which numpy
\* repeats) raises ValueError.
ReadField(file, dims, fieldDim) ==
    LET g == GenFromTxt(FieldValues(file), dims * fieldDim)
        run(i) == Slice(g.data, i * dims, (i + 1) * dims)
    IN  IF ~g.ok THEN [ok |-> FALSE, err |-> g.err, field |-> <<>>]
        ELSE IF fieldDim > 0 /\ g.ndim = 0
             THEN [ok |-> FALSE, err |-> "IndexError", field |-> <<>>]
        ELSE IF \E i \in 0..(fieldDim - 1) : Len(run(i)) \notin {dims, 1}
             THEN [ok |-> FALSE, err |-> "ValueError", field |-> <<>>]
        ELSE [ok |-> TRUE, err |-> "none",
              field |-> [r \in 1..dims |->
                            [c \in 1..fieldDim |->
                                IF Len(run(c - 1)) = 1 THEN run(c - 1)[1]
                                                       ELSE run(c - 1)[r]]]]

Unbound == [bound |-> FALSE, x |-> <<>>, y |-> <<>>, z |-> <<>>]

EnIdle ==
    /\ en_pc = "idle"
    /\ en_args = [readFieldOnly |-> 0, dims |-> 0]
    /\ en_mesh = 0
    /\ en_file = [tag |-> "other", points |-> 0, rank |-> 1]
    /\ en_dims = 0
    /\ en_xyz = Unbound
    /\ en_fieldDim = 0
    /\ en_field = <<>>
    /\ en_err = "none"

\* ensight(fileNameMesh, fileNameField, readFieldOnly, dims) is called.
EnInit ==
    /\ en_pc = "start"
    /\ en_args \in [readFieldOnly : {0, 1}, dims : 0..MaxPoints]
    /\ en_mesh \in 0..MaxPoints
    /\ en_file \in [tag : Tags, points : 0..MaxPoints, rank : {1, 3, 9}]
    /\ en_dims = en_args.dims
    /\ en_xyz = Unbound
    /\ en_fieldDim = 0
    /\ en_field = <<>>
    /\ en_err = "none"

\* Lines 148-167: the geometry is read when readFieldOnly == 0.
EnGeometry ==
    /\ en_pc = "start"
    /\ en_args.readFieldOnly = 0
    /\ LET dims == en_mesh
           g    == GenFromTxt(MeshValues(en_mesh), dims * 3)
       IN  /\ en_dims' = dims
           /\ IF g.ok
              THEN /\ en_xyz' = [bound |-> TRUE,
                                 x |-> Slice(g.data, 0, dims),
                                 y |-> Slice(g.data, dims, 2 * dims),
                                 z |-> Slice(g.data, 2 * dims, 3 * dims)]
                   /\ en_pc' = "field"
                   /\ en_err' = "none"
              ELSE /\ en_xyz' = en_xyz
                   /\ en_pc' = "failed"
                   /\ en_err' = g.err
    /\ UNCHANGED <<en_args, en_mesh, en_file, en_fieldDim, en_field>>
    /\ UNCHANGED EnOthers

\* Line 148: readFieldOnly != 0, nothing of lines 149-167 runs.
EnSkipGeometry ==
    /\ en_pc = "start"
    /\ en_args.readFieldOnly # 0
    /\ en_pc' = "field"
    /\ UNCHANGED <<en_args, en_mesh, en_file, en_dims, en_xyz, en_fieldDim, en_field, en_err>>
    /\ UNCHANGED EnOthers

\* Lines 174-197: the type tag, then the field table.
EnReadField ==
    /\ en_pc = "field"
    /\ LET fieldDim == FieldDimOf(en_file.tag)
           r        == ReadField(en_file, en_dims, fieldDim)
       IN  /\ en_fieldDim' = fieldDim
           /\ en_field' = r.field
           /\ en_err' = r.err
           /\ en_pc' = IF r.ok THEN "return" ELSE "failed"
    /\ UNCHANGED <<en_args, en_mesh, en_file, en_dims, en_xyz>>
    /\ UNCHANGED EnOthers

\* Line 202: return dims, x, y, z, fieldDim, field.  Reading a local that
\* was never assigned raises UnboundLocalError.
EnReturn ==
    /\ en_pc = "return"
    /\ IF en_xyz.bound
       THEN en_pc' = "returned" /\ en_err' = "none"
       ELSE en_pc' = "failed" /\ en_err' = "UnboundLocalError"
    /\ UNCHANGED <<en_args, en_mesh, en_file, en_dims, en_xyz, en_fieldDim, en_field>>
    /\ UNCHANGED EnOthers

EnNext == EnGeometry \/ EnSkipGeometry \/ EnReadField \/ EnReturn

---------------------------------------------------------------------------
(***************************************************************************)
(* readData.py: structuredVTK.  Coordinates are kept in halves (the value  *)
(* h stands for h / 2), so that an origin need not be a whole number.      *)
(***************************************************************************)
MaxGrid == 2       \* points along one axis of the structured grid
MaxFields == 1     \* fields in the file

\* The origin coordinates a file may give: -1.5, 0.5 and 1.0.
OriginValues == {-3, 1, 2}

\* The spacings a file may give: (0.5, 1.0, 1.5) and (1.0, 1.0, 1.0).
Spacings == {<<1, 2, 3>>, <<2, 2, 2>>}

\* What may be wrong with a file: nothing, a DIMENSIONS line with too few
\* tokens, a count that is not a number, a data row with too few tokens.
Defects == {"none", "header", "count", "row"}

\* Storing a float into an element of an integer array (lines 76-77, 81-82,
\* 86-87): the fraction is dropped, towards zero.
StoreInIntArray(h) == IF h >= 0 THEN 2 * (h \div 2) ELSE -(2 * ((-h) \div 2))

\* np.linspace(start, start + step*(n-1), n).
Linspace(start, step, n) == [k \in 1..n |-> start + step * (k - 1)]

\* Lines 73-87, for one axis.
Axis(origin, spacing, n) ==
    IF n > 1 THEN Linspace(origin, spacing, n)
             ELSE <<StoreInIntArray(origin)>>

\* The token n (from 0) of data row r (from 1) of field m (from 0).
RowToken(m, r, n) == 100 * m + 10 * r + n

\* Lines 110-116: the rows come with i slowest, then k, then j; the row of
\* point (i, j, k), counted from 1 (indices from 0).
RowOf(dims, i, j, k) == (i * dims[3] + k) * dims[2] + j + 1

\* Lines 109-116: dataArray of one field, indexed [n][i][j][k] from 0.
DataArray(m, fieldDim, dims) ==
    [idx \in (0..(fieldDim - 1)) \X (0..(dims[1] - 1)) \X (0..(dims[2] - 1)) \X (0..(dims[3] - 1))
        |-> RowToken(m, RowOf(dims, idx[2], idx[3], idx[4]), idx[1])]

NoAxes == [x |-> <<>>, y |-> <<>>, z |-> <<>>]

VtkIdle ==
    /\ vtk_pc = "idle"
    /\ vtk_file = [dims |-> <<1, 1, 1>>, origin |-> <<2, 2, 2>>, spacing |-> <<2, 2, 2>>,
                   nFields |-> 0, fieldDim |-> 1, defect |-> "none"]
    /\ vtk_open = FALSE
    /\ vtk_dims = <<>>
    /\ vtk_axes = NoAxes
    /\ vtk_field = <<>>
    /\ vtk_err = "none"

\* structuredVTK(fileName) is called on a file.
VtkInit ==
    /\ vtk_pc = "start"
    /\ vtk_file \in [dims : (1..MaxGrid) \X (1..MaxGrid) \X (1..MaxGrid),
                     origin : OriginValues \X OriginValues \X OriginValues,
                     spacing : Spacings,
                     nFields : 0..MaxFields,
                     fieldDim : {1, 3},
                     defect : Defects]
    /\ vtk_open = FALSE
    /\ vtk_dims = <<>>
    /\ vtk_axes = NoAxes
    /\ vtk_field = <<>>
    /\ vtk_err = "none"

\* Line 29: f = open(fileName, 'r').
VtkOpen ==
    /\ vtk_pc = "start"
    /\ vtk_open' = TRUE
    /\ vtk_pc' = "header"
    /\ UNCHANGED <<vtk_file, vtk_dims, vtk_axes, vtk_field, vtk_err>>
    /\ UNCHANGED VtkOthers

\* Lines 33-69: the name, the dimensions, the origin and the spacing.  c[2]
\* of a short line raises IndexError, int() of a word raises ValueError;
\* nothing closes f then.
VtkReadHeader ==
    /\ vtk_pc = "header"
    /\ IF vtk_file.defect = "header"
       THEN vtk_pc' = "failed" /\ vtk_err' = "IndexError" /\ vtk_dims' = vtk_dims
       ELSE IF vtk_file.defect = "count"
       THEN vtk_pc' = "failed" /\ vtk_err' = "ValueError" /\ vtk_dims' = vtk_dims
       ELSE vtk_pc' = "grid" /\ vtk_err' = "none" /\ vtk_dims' = vtk_file.dims
    /\ UNCHANGED <<vtk_file, vtk_open, vtk_axes, vtk_field>>
    /\ UNCHANGED VtkOthers

\* Lines 72-87: the three axes.
VtkFormGrid ==
    /\ vtk_pc = "grid"
    /\ vtk_axes' = [x |-> Axis(vtk_file.origin[1], vtk_file.spacing[1], vtk_dims[1]),
                    y |-> Axis(vtk_file.origin[2], vtk_file.spacing[2], vtk_dims[2]),
                    z |-> Axis(vtk_file.origin[3], vtk_file.spacing[3], vtk_dims[3])]
    /\ vtk_pc' = "fields"
    /\ UNCHANGED <<vtk_file, vtk_open, vtk_dims, vtk_field, vtk_err>>
    /\ UNCHANGED VtkOthers

\* Lines 90-118: the field count, then every field.  l[n] of a row with too
\* few tokens raises IndexError (in the first row of the first field);
\* nothing closes f then.
VtkReadFields ==
    /\ vtk_pc = "fields"
    /\ IF vtk_file.defect = "row" /\ vtk_file.nFields > 0
       THEN /\ vtk_pc' = "failed"
            /\ vtk_err' = "IndexError"
            /\ vtk_field' = vtk_field
       ELSE /\ vtk_pc' = "close"
            /\ vtk_err' = "none"
            /\ vtk_field' = [m \in 1..vtk_file.nFields |->
                                DataArray(m - 1, vtk_file.fieldDim, vtk_dims)]
    /\ UNCHANGED <<vtk_file, vtk_open, vtk_dims, vtk_axes>>
    /\ UNCHANGED VtkOthers

\* Lines 122-126: f.close(), then the return.
VtkCloseAndReturn ==
    /\ vtk_pc = "close"
    /\ vtk_open' = FALSE
    /\ vtk_pc' = "returned"
    /\ UNCHANGED <<vtk_file, vtk_dims, vtk_axes, vtk_field, vtk_err>>
    /\ UNCHANGED VtkOthers

\* After a failed call the file object is closed only when the interpreter
\* collects it, which is once the caller has dropped the traceback that
\* holds the frame: at some later time, or never.
VtkCollect ==
    /\ vtk_pc = "failed"
    /\ vtk_open
    /\ vtk_open' = FALSE
    /\ UNCHANGED <<vtk_pc, vtk_file, vtk_dims, vtk_axes, vtk_field, vtk_err>>
    /\ UNCHANGED VtkOthers

VtkNext ==
    VtkOpen \/ VtkReadHeader \/ VtkFormGrid \/ VtkReadFields \/ VtkCloseAndReturn \/ VtkCollect

---------------------------------------------------------------------------
(***************************************************************************)
(* remote_sensing.py: ARL_wind_profiler, called with its default bad       *)
(* values.  Speeds and directions are in tenths, heights in metres.  The   *)
(* function reads the names range_gates and header, which are neither      *)
(* parameters nor locals: they are looked up in the module namespace,      *)
(* where the module itself binds neither (it binds PCSodar_header); only a *)
(* program that has imported the module can have bound them.               *)
(***************************************************************************)
MaxBlocks == 2     \* blocks in a PCSodar file
MaxGates == 2      \* height gates: rows in a block, entries of range_gates

ARLBadSpeed == -999        \* bad_speed_value = -99.9
ARLBadDirection == 9990    \* bad_direction_value = 999
ARLGoodValues == {70}

\* The heights of n gates.
Gates(n) == [k \in 1..n |-> 10 * k]

\* A block of n rows: its heights are those of n gates, or all off by 5 m;
\* it holds no sentinel, or a bad speed in its first row and a bad
\* direction in its last.
BlockRows(n, shifted, flagged) ==
    [k \in 1..n |->
        [height_m          |-> Gates(n)[k] + (IF shifted THEN 5 ELSE 0),
         windspeed_ms      |-> IF flagged /\ k = 1 THEN ARLBadSpeed
                               ELSE CHOOSE v \in ARLGoodValues : TRUE,
         winddirection_deg |-> IF flagged /\ k = n THEN ARLBadDirection
                               ELSE CHOOSE v \in ARLGoodValues : TRUE]]

Blocks == {BlockRows(n, sh, fl) : n \in 0..MaxGates, sh \in BOOLEAN, fl \in BOOLEAN}

Files == UNION {[1..n -> Blocks] : n \in 0..MaxBlocks}

\* A name of the module namespace that nothing has bound.
NotBound == [bound |-> FALSE, val |-> <<>>]

\* Lines 186-187: the bad values are flagged, each column on its own.
ARLFlag(rows) ==
    [k \in 1..Len(rows) |->
        [height_m          |-> rows[k].height_m,
         windspeed_ms      |-> IF rows[k].windspeed_ms = ARLBadSpeed
                               THEN NaN ELSE rows[k].windspeed_ms,
         winddirection_deg |-> IF rows[k].winddirection_deg = ARLBadDirection
                               THEN NaN ELSE rows[k].winddirection_deg]]

\* Lines 177-189, one pass of the loop over a block of the file, with Nh
\* the row count taken from range_gates:
\*  - fewer than Nh rows: the Nh lines read run into the next block's first
\*    line or the end of the file, and the DataFrame cannot be built;
\*  - header is not bound: NameError at line 184;
\*  - the heights differ from range_gates: the assert at line 185 fails;
\*  - more than Nh rows: the block is taken, and the line read as the next
\*    first line is a data row, which line 178 cannot unpack.
ReadBlock(rows, Nh, env) ==
    IF ~env.header.bound
    THEN [ok |-> FALSE, err |-> "NameError", df |-> <<>>]
    ELSE IF Len(rows) < Nh
    THEN [ok |-> FALSE, err |-> "ValueError", df |-> <<>>]
    ELSE IF [k \in 1..Nh |-> rows[k].height_m] # env.range_gates.val
    THEN [ok |-> FALSE, err |-> "AssertionError", df |-> <<>>]
    ELSE IF Len(rows) > Nh
    THEN [ok |-> FALSE, err |-> "ValueError", df |-> ARLFlag(SubSeq(rows, 1, Nh))]
    ELSE [ok |-> TRUE, err |-> "none", df |-> ARLFlag(rows)]

\* pd.concat of a list of dataframes: their rows, in order.
RECURSIVE Concat(_)
Concat(dfs) == IF dfs = <<>> THEN <<>> ELSE Head(dfs) \o Concat(Tail(dfs))

ArlIdle ==
    /\ arl_pc = "idle"
    /\ arl_env = [range_gates |-> NotBound, header |-> NotBound]
    /\ arl_file = <<>>
    /\ arl_i = 0
    /\ arl_dataframes = <<>>
    /\ arl_df = <<>>
    /\ arl_err = "none"

\* ARL_wind_profiler(fname) is called: in the module as it is imported, or
\* after the importing program has bound range_gates, header or both.
ArlInit ==
    /\ arl_pc = "start"
    /\ arl_env \in [range_gates : {NotBound} \cup {[bound |-> TRUE, val |-> Gates(n)] : n \in 1..MaxGates},
                    header : {NotBound, [bound |-> TRUE, val |-> <<"height_m", "windspeed_ms", "winddirection_deg">>]}]
    /\ arl_file \in Files
    /\ arl_i = 0
    /\ arl_dataframes = <<>>
    /\ arl_df = <<>>
    /\ arl_err = "none"

\* Lines 173-176: dataframes = [], Nh = len(range_gates), the file is opened
\* and its first line read.
ArlStart ==
    /\ arl_pc = "start"
    /\ IF arl_env.range_gates.bound
       THEN arl_pc' = "loop" /\ arl_err' = "none"
       ELSE arl_pc' = "failed" /\ arl_err' = "NameError"
    /\ UNCHANGED <<arl_env, arl_file, arl_i, arl_dataframes, arl_df>>
    /\ UNCHANGED ArlOthers

\* Lines 177-190: one block.
ArlReadBlock ==
    /\ arl_pc = "loop"
    /\ arl_i < Len(arl_file)
    /\ LET r == ReadBlock(arl_file[arl_i + 1], Len(arl_env.range_gates.val), arl_env)
       IN  /\ arl_dataframes' = IF r.df = <<>> THEN arl_dataframes
                                ELSE Append(arl_dataframes, r.df)
           /\ arl_i' = IF r.ok THEN arl_i + 1 ELSE arl_i
           /\ arl_pc' = IF r.ok THEN "loop" ELSE "failed"
           /\ arl_err' = r.err
    /\ UNCHANGED <<arl_env, arl_file, arl_df>>
    /\ UNCHANGED ArlOthers

\* Lines 177 and 191: the first line read is '', the loop ends and the
\* blocks are concatenated; pd.concat of an empty list raises ValueError.
ArlReturn ==
    /\ arl_pc = "loop"
    /\ arl_i = Len(arl_file)
    /\ IF arl_dataframes = <<>>
       THEN arl_pc' = "failed" /\ arl_err' = "ValueError" /\ arl_df' = arl_df
       ELSE arl_pc' = "returned" /\ arl_err' = "none" /\ arl_df' = Concat(arl_dataframes)
    /\ UNCHANGED <<arl_env, arl_file, arl_i, arl_dataframes>>
    /\ UNCHANGED ArlOthers

ArlNext == ArlStart \/ ArlReadBlock \/ ArlReturn

---------------------------------------------------------------------------
(***************************************************************************)
(* WRF/viz.py: Visualization2D, for plane 'z'.  A field is kept at one     *)
(* level; lengths are in metres, and a length that has been divided by     *)
(* 1000 is kept as the metres with the unit 'km'.  What matplotlib draws   *)
(* is kept as the arguments it is given.                                   *)
(***************************************************************************)
MaxNx == 2         \* grid points along x and along y

\* How many times may be loaded (self.Ntimes): one, or more than one.
TimesLoaded == {1, 2}

\* The grid spacings ds: the default 1.0, and two that put a grid of two
\* points at and above the extent of 10000.
DsValues == {1, 10000, 10001}

\* The fields the widget offers (of 'U', 'V', 'W', 'T').
WidgetFields == {"U", "T"}

\* The value of a field (or of z) at time t, row j, column i.
FieldCode(name) ==
    CASE name = "z" -> 1 [] name = "U" -> 2 [] name = "V" -> 3
      [] name = "W" -> 4 [] name = "T" -> 5
Value(name, t, j, i) == 1000 * FieldCode(name) + 100 * t + 10 * j + i

\* The indices a[lo:hi] takes from an axis of N entries (lo, hi >= 0), in
\* order.
SliceIdx(lo, hi, N) == [k \in 1..(Min(hi, N) - Min(lo, N)) |-> Min(lo, N) + k - 1]

\* The values of F[t, rows, cols] at one level, row by row.
Block(name, t, rows, cols) ==
    [k \in 1..(Len(rows) * Len(cols)) |->
        Value(name, t, rows[((k - 1) \div Len(cols)) + 1], cols[((k - 1) % Len(cols)) + 1])]

\* (mutant) a slice that stops before the upper index of the selection.
MeanOver_Exclusive(name, t, xr, yr, grid) ==
    LET block == Block(name, t, SliceIdx(yr[1], yr[2], grid.Ny), SliceIdx(xr[1], xr[2], grid.Nx))
    IN  [sum |-> SumSeq(block), n |-> Len(block)]

\* np.mean(F[t,:,yr[0]:yr[1]+1,xr[0]:xr[1]+1]) at one level, as sum and count.
MeanOver(name, t, xr, yr, grid) ==
    LET block == Block(name, t, SliceIdx(yr[1], yr[2] + 1, grid.Ny),
                                SliceIdx(xr[1], xr[2] + 1, grid.Nx))
    IN  [sum |-> SumSeq(block), n |-> Len(block)]

\* The means of the named fields over the region, for each of the times.
MeansOf(names, times, xr, yr, grid) ==
    [nm \in names |-> [k \in 1..Len(times) |-> MeanOver(nm, times[k], xr, yr, grid)]]

AllTimes(grid) == [k \in 1..grid.Ntimes |-> k - 1]

Max2(a, b) == IF a >= b THEN a ELSE b

NoRect == [drawn |-> FALSE, x |-> 0, y |-> 0, w |-> 0, h |-> 0, units |-> "m"]

\* Lines 144-185: plot(field, time, index, xlim, ylim) with a valid time and
\* index.  rescale is assigned only inside 'if np.max(extent) > 10000', and
\* read at line 174 whenever the rectangle is to be drawn.
Plot(grid, xlim, ylim) ==
    LET rescaleBound == Max2(0, Max2((grid.Nx - 1) * grid.ds, (grid.Ny - 1) * grid.ds)) > 10000
        units    == IF rescaleBound THEN "km" ELSE "m"
        needRect == \/ xlim[1] > 0 \/ xlim[2] < grid.Nx - 1
                    \/ ylim[1] > 0 \/ ylim[2] < grid.Ny - 1
    IN  IF needRect /\ ~rescaleBound
        THEN [ok |-> FALSE, err |-> "UnboundLocalError", units |-> units, rect |-> NoRect]
        ELSE [ok |-> TRUE, err |-> "none", units |-> units,
              rect |-> IF needRect
                       THEN [drawn |-> TRUE, x |-> xlim[1] * grid.ds, y |-> ylim[1] * grid.ds,
                             w |-> (xlim[2] - xlim[1]) * grid.ds,
                             h |-> (ylim[2] - ylim[1]) * grid.ds, units |-> "km"]
                       ELSE NoRect]

\* The values an IntRangeSlider(min=0, max=N-1) can hold.
Ranges(N) == {<<lo, hi>> : lo \in 0..(N - 1), hi \in 0..(N - 1)} \cap {r \in Int \X Int : r[1] <= r[2]}

NoKwargs == [field |-> "U", time |-> 0, xlim |-> <<0, 0>>, ylim |-> <<0, 0>>]
NoMeans == [nm \in {} |-> <<>>]

\* The record of a call: the method, whether it returned, the exception,
\* the xlim and ylim it worked with, what plot drew, and the means taken.
Call(op, ok, err, xlim, ylim, units, rect, means) ==
    [op |-> op, ok |-> ok, err |-> err, xlim |-> xlim, ylim |-> ylim,
     units |-> units, rect |-> rect, means |-> means]

VzIdle ==
    /\ vz_grid = [Nx |-> 1, Ny |-> 1, Ntimes |-> 1, ds |-> 1]
    /\ vz_iplot = [exists |-> FALSE, kwargs |-> NoKwargs]
    /\ vz_last = Call("idle", TRUE, "none", <<0, 0>>, <<0, 0>>, "m", NoRect, NoMeans)

\* A Visualization2D has been constructed; interactive() has not been called.
VzInit ==
    /\ vz_grid \in [Nx : 1..MaxNx, Ny : 1..MaxNx, Ntimes : TimesLoaded, ds : DsValues]
    /\ vz_iplot = [exists |-> FALSE, kwargs |-> NoKwargs]
    /\ vz_last = Call("__init__", TRUE, "none", <<0, 0>>, <<0, 0>>, "m", NoRect, NoMeans)

\* The widget calls plot with the selection it has just stored in kwargs,
\* and shows an exception of plot instead of raising it.
WidgetUpdate(op, kwargs) ==
    LET r == Plot(vz_grid, kwargs.xlim, kwargs.ylim)
    IN  /\ vz_iplot' = [exists |-> TRUE, kwargs |-> kwargs]
        /\ vz_last' = Call(op, TRUE, r.err, kwargs.xlim, kwargs.ylim, r.units, r.rect, NoMeans)

\* Lines 132-142: interactive() makes the widget, the range sliders on the
\* full domain, the field on the first of the list, the time slider in the
\* middle of its range; displaying it calls plot.
VzInteractive ==
    /\ WidgetUpdate("interactive",
                    [field |-> "U", time |-> (vz_grid.Ntimes - 1) \div 2,
                     xlim |-> <<0, vz_grid.Nx - 1>>, ylim |-> <<0, vz_grid.Ny - 1>>])
    /\ UNCHANGED vz_grid
    /\ UNCHANGED VzOthers

\* The selections one change of one widget leads to from the selection kw.
OneWidgetChanged(kw) ==
    ({[kw EXCEPT !.field = f] : f \in WidgetFields}
        \cup {[kw EXCEPT !.time = t] : t \in 0..(vz_grid.Ntimes - 1)}
        \cup {[kw EXCEPT !.xlim = r] : r \in Ranges(vz_grid.Nx)}
        \cup {[kw EXCEPT !.ylim = r] : r \in Ranges(vz_grid.Ny)}) \ {kw}

\* The user moves a slider or picks a field: an interactive selection update.
VzSelect ==
    /\ vz_iplot.exists
    /\ \E kwargs \in OneWidgetChanged(vz_iplot.kwargs) : WidgetUpdate("select", kwargs)
    /\ UNCHANGED vz_grid
    /\ UNCHANGED VzOthers

\* plot() is called directly: xlim is the default (0, -1) or a range inside
\* the domain, ylim the default or the full range.
VzPlot ==
    /\ \E xlim \in Ranges(vz_grid.Nx) \cup {<<0, -1>>}, ylim \in {<<0, vz_grid.Ny - 1>>, <<0, -1>>} :
          LET r == Plot(vz_grid, xlim, ylim)
          IN  vz_last' = Call("plot", r.ok, r.err, xlim, ylim, r.units, r.rect, NoMeans)
    /\ UNCHANGED <<vz_grid, vz_iplot>>
    /\ UNCHANGED VzOthers

\* self.iplot.kwargs before interactive() has set self.iplot.
NoIplot(op) == Call(op, FALSE, "AttributeError", <<0, 0>>, <<0, 0>>, "m", NoRect, NoMeans)

\* A method that takes means over the selection: names are the fields it
\* averages, times the times; err is what fails after the averaging.
MeanCall(op, names, times, err) ==
    IF ~vz_iplot.exists THEN NoIplot(op)
    ELSE Call(op, err = "none", err, vz_iplot.kwargs.xlim, vz_iplot.kwargs.ylim, "m", NoRect,
              MeansOf(names, times, vz_iplot.kwargs.xlim, vz_iplot.kwargs.ylim, vz_grid))

\* Lines 197-217: plot_mean_profile(itime, field=None), itime None or a time.
VzPlotMeanProfile ==
    /\ \E itime \in {-1} \cup 0..(vz_grid.Ntimes - 1) :
          vz_last' = MeanCall("plot_mean_profile", {"z", vz_iplot.kwargs.field},
                              <<IF itime = -1 THEN vz_iplot.kwargs.time ELSE itime>>, "none")
    /\ UNCHANGED <<vz_grid, vz_iplot>>
    /\ UNCHANGED VzOthers

\* Lines 219-246: plot_mean_profiles_over_time(field=None).  Line 238
\* divides by self.Ntimes-1, which is zero when one time is loaded.
VzPlotMeanProfilesOverTime ==
    /\ vz_last' = MeanCall("plot_mean_profiles_over_time", {"z", vz_iplot.kwargs.field},
                           AllTimes(vz_grid),
                           IF vz_grid.Ntimes = 1 THEN "ZeroDivisionError" ELSE "none")
    /\ UNCHANGED <<vz_grid, vz_iplot>>
    /\ UNCHANGED VzOthers

\* Lines 248-269: timeheight_plot_mean(field=None).
VzTimeheightPlotMean ==
    /\ vz_last' = MeanCall("timeheight_plot_mean", {"z", vz_iplot.kwargs.field},
                           AllTimes(vz_grid), "none")
    /\ UNCHANGED <<vz_grid, vz_iplot>>
    /\ UNCHANGED VzOthers

\* ForcingTable(heights, times, U, V, W, T): a table of the arrays given.
ForcingTable(means) == means

\* Lines 271-283: get_forcing_table().
VzGetForcingTable ==
    /\ LET c == MeanCall("get_forcing_table", {"z", "U", "V", "W", "T"}, AllTimes(vz_grid), "none")
       IN  vz_last' = [c EXCEPT !.means = ForcingTable(c.means)]
    /\ UNCHANGED <<vz_grid, vz_iplot>>
    /\ UNCHANGED VzOthers

VzNext ==
    \/ VzInteractive \/ VzSelect \/ VzPlot
    \/ VzPlotMeanProfile \/ VzPlotMeanProfilesOverTime \/ VzTimeheightPlotMean
    \/ VzGetForcingTable

---------------------------------------------------------------------------
(***************************************************************************)
(* The specifications: one reader runs, the others stay idle.              *)
(***************************************************************************)
InitBinario  == BfInit /\ PaIdle /\ WcIdle /\ PrIdle /\ EnIdle /\ VtkIdle /\ ArlIdle /\ VzIdle
InitPlanar   == BfIdle /\ PaInit /\ WcIdle /\ PrIdle /\ EnIdle /\ VtkIdle /\ ArlIdle /\ VzIdle
InitWindcube == BfIdle /\ PaIdle /\ WcInit /\ PrIdle /\ EnIdle /\ VtkIdle /\ ArlIdle /\ VzIdle
InitProfiler == BfIdle /\ PaIdle /\ WcIdle /\ PrInit /\ EnIdle /\ VtkIdle /\ ArlIdle /\ VzIdle
InitEnsight  == BfIdle /\ PaIdle /\ WcIdle /\ PrIdle /\ EnInit /\ VtkIdle /\ ArlIdle /\ VzIdle
InitVtk      == BfIdle /\ PaIdle /\ WcIdle /\ PrIdle /\ EnIdle /\ VtkInit /\ ArlIdle /\ VzIdle
InitArl      == BfIdle /\ PaIdle /\ WcIdle /\ PrIdle /\ EnIdle /\ VtkIdle /\ ArlInit /\ VzIdle
InitViz      == BfIdle /\ PaIdle /\ WcIdle /\ PrIdle /\ EnIdle /\ VtkIdle /\ ArlIdle /\ VzInit

SpecBinario  == InitBinario /\ [][BfNext]_vars
SpecPlanar   == InitPlanar /\ [][PaNext]_vars
SpecWindcube == InitWindcube /\ [][WcNext]_vars
SpecProfiler == InitProfiler /\ [][PrNext]_vars
SpecEnsight  == InitEnsight /\ [][EnNext]_vars
SpecVtk      == InitVtk /\ [][VtkNext]_vars
SpecArl      == InitArl /\ [][ArlNext]_vars
SpecViz      == InitViz /\ [][VzNext]_vars

---------------------------------------------------------------------------
(***************************************************************************)
(* binario.py: the encodings the reads are checked against.  These are     *)
(* written from the formats (struct.pack), independently of the decoders.  *)
(***************************************************************************)

\* struct.pack of an integer of w <= 4 bytes: two's complement, low byte first.
PackInt(v, w) == [k \in 1..w |-> (v \div Pow(256, k - 1)) % 256]

\* v is in the range of a signed integer of w bytes: -2^(8w-1) .. 2^(8w-1)-1.
InRange(v, w) ==
    /\ v \div 2 >= -Pow(2, 8 * w - 2)
    /\ v \div 2 < Pow(2, 8 * w - 2)

PackInt8(v) ==
    <<v.lo % 256, v.lo \div 256, v.mid % 256, v.mid \div 256>> \o PackInt(v.hi, 4)

\* struct.pack('f', v) of a value (-1)^sign * num * 2^exp that binary32 holds.
PackFloat(v) ==
    LET bits(sign, e, m) ==
            <<m % 256, (m \div 256) % 256, (e % 2) * 128 + m \div 65536,
              sign * 128 + e \div 2>>
    IN  CASE v.kind = "zero" -> bits(v.sign, 0, 0)
          [] v.kind = "inf"  -> bits(v.sign, 255, 0)
          [] v.kind = "num"  ->
                LET k == CHOOSE j \in 0..23 :
                             /\ v.num * Pow(2, j) >= 8388608
                             /\ v.num * Pow(2, j) < 16777216
                    e == v.exp - k + 150
                IN  IF e >= 1 THEN bits(v.sign, e, v.num * Pow(2, k) - 8388608)
                              ELSE bits(v.sign, 0, v.num * Pow(2, v.exp + 149))

PackDouble(v) ==
    <<v.frac[3] % 256, v.frac[3] \div 256, v.frac[2] % 256, v.frac[2] \div 256,
      v.frac[1] % 256, (v.frac[1] \div 256) % 256,
      (v.exp % 16) * 16 + v.frac[1] \div 65536, v.sign * 128 + v.exp \div 16>>

\* value is what the bytes hold, read as the type of op.
Encodes(op, value, bytes) ==
    CASE op \in {"read_int1", "read_int2", "read_int4"} ->
            InRange(value, Width(op)) /\ PackInt(value, Width(op)) = bytes
      [] op = "read_int8"   -> PackInt8(value) = bytes
      [] op = "read_double" -> PackDouble(value) = bytes
      [] op = "read_float"  ->
            IF value.kind = "nan"
            THEN /\ (bytes[4] % 128) * 2 + bytes[3] \div 128 = 255
                 /\ (bytes[3] % 128) + bytes[2] + bytes[1] > 0
            ELSE PackFloat(value) = bytes

\* The float 2.5 = 5 * 2^-1.
TwoAndAHalf == [kind |-> "num", sign |-> 0, num |-> 5, exp |-> -1]

BfSlice(from, n) == SubSeq(bf_stream, from + 1, from + n)

\* The read needed more bytes than the stream had left.
BfShort(e) == Len(bf_stream) - e.before < e.N * Width(e.op)

\* C1: when a binaryfile is the subject of a 'with' statement, the stream is
\* closed once the scope has been left, whether the body completed or raised
\* (the exception swallowed or passed on).
C1_ClosedAfterScope ==
    (bf_inWith /\ bf_pc \in {"after", "propagated"}) => bf_closed

\* C1 witness: a scope left by an error, with the stream closed.
C1_Witness ==
    bf_inWith /\ bf_pc = "after" /\ bf_exc # "none" /\ bf_closed

\* C2: a typed read that runs out of bytes fails and the failure reaches the
\* caller: the statements after a 'with' scope never run after such a read.
C2_ShortReadIsFatal ==
    \A k \in 1..Len(bf_log) :
        BfShort(bf_log[k]) => (~bf_log[k].ok /\ bf_pc # "after")

\* C3: every successful read returns the value encoded at the position it
\* started from and moves the position by N times the width of its type, so
\* that while no read has failed the position is the sum of the widths read;
\* on the file holding 1, 2, 3 and 2.5, three read_int4 and one read_float
\* return 1, 2, 3, 2.5 and leave the position at 16.
C3_ReadsDecodeAndAdvance ==
    /\ \A k \in 1..Len(bf_log) :
          LET e == bf_log[k]
              w == Width(e.op)
          IN  e.ok =>
                /\ e.after = e.before + e.N * w
                /\ e.before = IF k = 1 THEN 0 ELSE bf_log[k - 1].after
                /\ e.N = 1 => Encodes(e.op, e.value, BfSlice(e.before, w))
    /\ (\A k \in 1..Len(bf_log) : bf_log[k].ok) =>
          bf_pos = SumSeq([k \in 1..Len(bf_log) |-> bf_log[k].N * Width(bf_log[k].op)])
    /\ ( /\ bf_stream = ScenarioFile
         /\ [k \in 1..Len(bf_log) |-> <<bf_log[k].op, bf_log[k].N>>]
              = <<<<"read_int4", 1>>, <<"read_int4", 1>>, <<"read_int4", 1>>,
                  <<"read_float", 1>>>> )
       => /\ [k \in 1..4 |-> bf_log[k].value] = <<1, 2, 3, TwoAndAHalf>>
          /\ bf_pos = 16

\* C3 witness: the scenario has been read to its end.
C3_Witness ==
    /\ bf_stream = ScenarioFile
    /\ Len(bf_log) = 4
    /\ \A k \in 1..4 : bf_log[k].ok /\ bf_log[k].N = 1
    /\ bf_log[4].op = "read_float"
    /\ bf_pos = 16

\* C4: every typed read called with N > 1 on a stream that holds at least N
\* more values of its type succeeds and returns exactly those N values, in
\* stream order.
C4_ReadsOfNValues ==
    \A k \in 1..Len(bf_log) :
        LET e == bf_log[k]
            w == Width(e.op)
        IN  (e.N > 1 /\ ~BfShort(e)) =>
               /\ e.ok
               /\ Len(e.value) = e.N
               /\ \A j \in 1..e.N :
                     Encodes(e.op, e.value[j], BfSlice(e.before + (j - 1) * w, w))

PaFile(i) == pa_fs[pa_outputTimes[i]]

\* Every non-last time column reaches the nominal start of the next
\* subdirectory: the runs overlap at the restart boundaries.
PaOverlap ==
    \A i \in 1..(Len(pa_outputTimes) - 1) :
        PaFile(i)[Len(PaFile(i))].t >= pa_outputTimes[i + 1]

\* No subdirectory holds a row earlier than its own nominal start time.
PaRowsFromStart ==
    \A i \in 1..Len(pa_outputTimes) : PaFile(i)[1].t >= pa_outputTimes[i]

PaStrictlyIncreasing(q) == \A a, b \in 1..Len(q) : a < b => q[a] < q[b]

\* C5 as stated: whenever the (increasing) time columns overlap at the restart
\* boundaries, the returned times have no duplicate and never decrease.
C5_AsStated ==
    (pa_pc = "returned" /\ PaOverlap) => PaStrictlyIncreasing(pa_t)

\* C5 as amended: whenever the (increasing) time columns overlap at the
\* restart boundaries and no subdirectory holds a row earlier than its own
\* nominal start time, the returned times have no duplicate and never decrease.
C5_NoDuplicateTimes ==
    (pa_pc = "returned" /\ PaOverlap /\ PaRowsFromStart) => PaStrictlyIncreasing(pa_t)

\* C5 witness: a run cut at the restart it overlaps, rows dropped, followed
\* by the rows of the restarted run.
C5_Witness ==
    /\ pa_pc = "returned"
    /\ Len(pa_outputTimes) = MaxDirs
    /\ PaOverlap /\ PaRowsFromStart
    /\ Len(PaFile(1)) = 3
    /\ pa_t = <<PaFile(1)[1].t>> \o [k \in 1..Len(PaFile(MaxDirs)) |-> PaFile(MaxDirs)[k].t]

---------------------------------------------------------------------------
WcRow(k) == wc_newdf[k]

\* C6 as stated: every direction windcube_v1 returns is in [0, 360).
C6_AsStated ==
    wc_pc = "returned" =>
        \A k \in 1..Len(wc_out) : 0 <= wc_out[k].direction /\ wc_out[k].direction < 360000

\* C6 as amended: every direction windcube_v1 returns is in [0, 360]: never
\* negative and never greater than 360 (360 itself is returned).
C6_DirectionRange ==
    wc_pc = "returned" =>
        /\ Len(wc_out) = Len(wc_newdf)
        /\ \A k \in 1..Len(wc_out) :
              0 <= wc_out[k].direction /\ wc_out[k].direction <= 360000

\* C6 witness: a northerly wind (direction 360, not wrapped) next to a wind
\* whose raw direction is over 360 and is wrapped.
C6_Witness ==
    /\ wc_pc = "returned"
    /\ \E k \in 1..Len(wc_out) : wc_out[k].direction = 360000
    /\ \E k \in 1..Len(wc_out) :
          WcRow(k).um < 0 /\ WcRow(k).vm < 0 /\ wc_out[k].direction < 90000

\* C7 as stated: the direction is 0 for u=0, v=-1; 180 for u=-1, v=0; 270
\* for u=1, v=0.
C7_AsStated ==
    wc_pc = "returned" =>
        \A k \in 1..Len(wc_out) :
            /\ (WcRow(k).um = 0 /\ WcRow(k).vm = -1) => wc_out[k].direction = 0
            /\ (WcRow(k).um = -1 /\ WcRow(k).vm = 0) => wc_out[k].direction = 180000
            /\ (WcRow(k).um = 1 /\ WcRow(k).vm = 0) => wc_out[k].direction = 270000

\* C7 as amended: the direction is 360 for u=0, v=-1; 90 for u=-1, v=0; 270
\* for u=1, v=0.
C7_CompassPoints ==
    wc_pc = "returned" =>
        \A k \in 1..Len(wc_out) :
            /\ (WcRow(k).um = 0 /\ WcRow(k).vm = -1) => wc_out[k].direction = 360000
            /\ (WcRow(k).um = -1 /\ WcRow(k).vm = 0) => wc_out[k].direction = 90000
            /\ (WcRow(k).um = 1 /\ WcRow(k).vm = 0) => wc_out[k].direction = 270000

\* C7 witness: the northerly and the easterly wind have been converted.
C7_Witness ==
    /\ wc_pc = "returned"
    /\ \E k \in 1..Len(wc_out) : WcRow(k) = [um |-> 0, vm |-> -1]
    /\ \E k \in 1..Len(wc_out) : WcRow(k) = [um |-> -1, vm |-> 0]

\* The codes that make a speed, and a direction, bad in the call made.
PrSpeedSentinels ==
    IF pr_bad.kind = "pair" THEN {pr_bad.vals[1]}
    ELSE {pr_bad.vals[j] : j \in 1..Len(pr_bad.vals)}

PrDirectionSentinels ==
    IF pr_bad.kind = "pair" THEN {pr_bad.vals[2]}
    ELSE {pr_bad.vals[j] : j \in 1..Len(pr_bad.vals)}

\* C8: in ESRL_wind_profiler (one code or a list of codes) and in
\* scintec_profiler, the rows returned are the rows read, in order; a speed
\* is missing exactly when the raw speed is a speed sentinel, a direction
\* exactly when the raw direction is a direction sentinel, each column on its
\* own; every other speed and direction is the raw value.
C8_SentinelsFlagged ==
    pr_pc = "returned" =>
        /\ Len(pr_df) = Len(pr_raw)
        /\ \A k \in 1..Len(pr_raw) :
              /\ pr_df[k].SPD = IF pr_raw[k].SPD \in PrSpeedSentinels
                                THEN NaN ELSE pr_raw[k].SPD
              /\ pr_df[k].DIR = IF pr_raw[k].DIR \in PrDirectionSentinels
                                THEN NaN ELSE pr_raw[k].DIR

\* C8 witness: ESRL with a list of two codes; one row has a bad speed (the
\* second code) and a good direction, another a bad direction only.
C8_Witness ==
    /\ pr_pc = "returned"
    /\ pr_reader = "ESRL"
    /\ pr_bad.kind = "list" /\ Len(pr_bad.vals) = 2 /\ pr_bad.vals[1] # pr_bad.vals[2]
    /\ \E k \in 1..Len(pr_raw) :
          /\ pr_raw[k].SPD = pr_bad.vals[2]
          /\ pr_raw[k].DIR \in GoodValues
          /\ pr_df[k].SPD = NaN /\ pr_df[k].DIR = pr_raw[k].DIR
    /\ \E k \in 1..Len(pr_raw) :
          /\ pr_raw[k].SPD \in GoodValues
          /\ pr_df[k].SPD = pr_raw[k].SPD /\ pr_df[k].DIR = NaN

\* The field file is well formed for the call: it holds the values of
\* en_dims points (at least one) of the rank its tag names.
EnWellFormed ==
    /\ en_file.tag # "other"
    /\ en_file.rank = FieldDimOf(en_file.tag)
    /\ en_file.points = en_dims
    /\ en_dims >= 1

EnColumns == IF en_field = <<>> THEN 0 ELSE Len(en_field[1])

\* C9: once the call has ended, a well-formed field file tagged scalar,
\* vector or tensor has given a returned field table of 1, 3 or 9 columns,
\* and any other tag has made the call fail.
C9_ColumnsByTag ==
    /\ (en_pc \in {"returned", "failed"} /\ EnWellFormed) =>
          /\ en_pc = "returned"
          /\ EnColumns = (CASE en_file.tag = "scalar" -> 1
                            [] en_file.tag = "vector" -> 3
                            [] en_file.tag = "tensor" -> 9)
    /\ (en_pc \in {"returned", "failed"} /\ en_file.tag = "other") => en_pc = "failed"

\* C10: a call in field-only mode with a well-formed field file returns, and
\* the field table has as many rows as the point count passed.
C10_FieldOnlyReturns ==
    (en_pc \in {"returned", "failed"} /\ en_args.readFieldOnly # 0 /\ EnWellFormed) =>
        /\ en_pc = "returned"
        /\ Len(en_field) = en_args.dims

\* The axes returned, in the order of the point counts.
VtkAxesList == <<vtk_axes.x, vtk_axes.y, vtk_axes.z>>

\* C11: once the call has returned, each axis has as many entries as the
\* file's point count for it, and an axis of one point holds the file's
\* origin coordinate of that axis, whatever the origin is.
C11_AxesExact ==
    vtk_pc = "returned" =>
        \A a \in 1..3 :
            /\ Len(VtkAxesList[a]) = vtk_file.dims[a]
            /\ vtk_file.dims[a] = 1 => VtkAxesList[a] = <<vtk_file.origin[a]>>

\* C12: once the call has returned or failed, the handle it opened is closed.
C12_HandlesReleased ==
    vtk_pc \in {"returned", "failed"} => ~vtk_open

\* The file is a well-formed PCSodar file: it holds at least one block, and
\* every block has a row for each of the same height gates (the gates that
\* range_gates names, when it is bound).
ArlWellFormed ==
    /\ arl_file # <<>>
    /\ \E n \in 1..MaxGates :
          /\ \A b \in 1..Len(arl_file) :
                /\ Len(arl_file[b]) = n
                /\ \A k \in 1..n : arl_file[b][k].height_m = Gates(n)[k]
          /\ arl_env.range_gates.bound => arl_env.range_gates.val = Gates(n)

\* C13: once the call on a well-formed file has ended, it has returned, and
\* the dataframe returned holds the rows of every block of the file, in
\* order (as many rows per block as there are height gates).
C13_BlocksConcatenated ==
    (arl_pc \in {"returned", "failed"} /\ ArlWellFormed) =>
        /\ arl_pc = "returned"
        /\ Len(arl_df) = Len(arl_file) * Len(arl_file[1])
        /\ \A b \in 1..Len(arl_file) : \A k \in 1..Len(arl_file[b]) :
              arl_df[(b - 1) * Len(arl_file[1]) + k].height_m = arl_file[b][k].height_m

\* The rows of subdirectory i (in the order of pa_outputTimes) that reach
\* the nominal start time of the next subdirectory.
PaReaching(i) ==
    {k \in 1..Len(PaFile(i)) : PaFile(i)[k].t >= pa_outputTimes[i + 1]}

\* What subdirectory i is to contribute: all its rows when it is the last;
\* otherwise the rows before the first one that reaches the next start
\* time, and no row when none reaches it.
PaContribution(i) ==
    IF i = Len(pa_outputTimes) THEN PaFile(i)
    ELSE IF PaReaching(i) = {} THEN <<>>
    ELSE SubSeq(PaFile(i), 1, (CHOOSE k \in PaReaching(i) : \A j \in PaReaching(i) : k <= j) - 1)

\* The contributions of subdirectories 1..i, in that order.
RECURSIVE PaContributions(_)
PaContributions(i) ==
    IF i = 0 THEN <<>> ELSE PaContributions(i - 1) \o PaContribution(i)

\* C14: when planarAverages returns, the time, interval-length and value
\* arrays are, row for row, the contributions of the subdirectories in
\* order: for each one but the last the rows before its first row at or
\* after the next subdirectory's start time (none when no row reaches that
\* time), for the last one all rows; the three arrays have equally many rows.
C14_BlocksTruncatedAndConcatenated ==
    pa_pc = "returned" =>
        LET rows == PaContributions(Len(pa_outputTimes))
        IN  /\ Len(pa_t) = Len(rows) /\ Len(pa_dt) = Len(rows) /\ Len(pa_data) = Len(rows)
            /\ \A k \in 1..Len(rows) :
                  /\ pa_t[k] = rows[k].t
                  /\ pa_dt[k] = rows[k].dt
                  /\ pa_data[k] = rows[k].d

\* C14 witness: two subdirectories; no row of the first reaches the start
\* time of the second, so the arrays returned hold the rows of the second
\* subdirectory only.
C14_Witness ==
    /\ pa_pc = "returned"
    /\ Len(pa_outputTimes) = 2
    /\ PaReaching(1) = {}
    /\ Len(PaFile(1)) >= 2
    /\ Len(pa_t) = Len(PaFile(2))
    /\ pa_data = [k \in 1..Len(PaFile(2)) |-> PaFile(2)[k].d]

---------------------------------------------------------------------------
\* The largest length of the image extent of the grid.
VzExtent == Max2((vz_grid.Nx - 1) * vz_grid.ds, (vz_grid.Ny - 1) * vz_grid.ds)

\* The xlim and ylim of the last call select less than the full domain.
VzSubRegion ==
    \/ vz_last.xlim[1] > 0 \/ vz_last.xlim[2] < vz_grid.Nx - 1
    \/ vz_last.ylim[1] > 0 \/ vz_last.ylim[2] < vz_grid.Ny - 1

\* C15: a call of plot returns, whatever the grid and the xlim and ylim
\* passed (the default (0,-1) included); it has drawn the rectangle exactly
\* when they select less than the full domain, and the lengths and the
\* rectangle are in km exactly when the extent exceeds 10000, in m otherwise.
C15_PlotCompletes ==
    vz_last.op = "plot" =>
        /\ vz_last.ok
        /\ vz_last.rect.drawn <=> VzSubRegion
        /\ vz_last.units = (IF VzExtent > 10000 THEN "km" ELSE "m")
        /\ vz_last.rect.drawn => vz_last.rect.units = vz_last.units

MeanOps ==
    {"plot_mean_profile", "plot_mean_profiles_over_time", "timeheight_plot_mean",
     "get_forcing_table"}

\* The mean of a field at time t over the rows and columns of a selection,
\* both end indices included.
RECURSIVE VzRowSum(_, _, _, _, _)
VzRowSum(name, t, j, i, last) ==
    IF i > last THEN 0 ELSE Value(name, t, j, i) + VzRowSum(name, t, j, i + 1, last)

RECURSIVE VzRegionSum(_, _, _, _, _)
VzRegionSum(name, t, j, last, xlim) ==
    IF j > last THEN 0
    ELSE VzRowSum(name, t, j, xlim[1], xlim[2]) + VzRegionSum(name, t, j + 1, last, xlim)

VzExpectedMean(name, t, sel) ==
    [sum |-> VzRegionSum(name, t, sel.ylim[1], sel.ylim[2], sel.xlim),
     n   |-> (sel.ylim[2] - sel.ylim[1] + 1) * (sel.xlim[2] - sel.xlim[1] + 1)]

\* What a call of one of the averaging methods has to have done, the
\* selection being sel: averaged z and the fields of the method (the
\* selected field, or U, V, W and T for the forcing table), at the times of
\* the method (one time, or every time loaded), over the region of sel.
VzAveragedOver(call, sel) ==
    /\ call.xlim = sel.xlim /\ call.ylim = sel.ylim
    /\ DOMAIN call.means = (IF call.op = "get_forcing_table" THEN {"z", "U", "V", "W", "T"}
                                                             ELSE {"z", sel.field})
    /\ \A nm \in DOMAIN call.means :
          IF call.op = "plot_mean_profile"
          THEN \E t \in 0..(vz_grid.Ntimes - 1) :
                  call.means[nm] = <<VzExpectedMean(nm, t, sel)>>
          ELSE call.means[nm] = [k \in 1..vz_grid.Ntimes |-> VzExpectedMean(nm, k - 1, sel)]

\* C16: every call of plot_mean_profile, plot_mean_profiles_over_time,
\* timeheight_plot_mean or get_forcing_table leaves the selection as it is;
\* once interactive() has been called it averages over the region of the
\* current (the most recent) selection, both end indices included, and
\* before that it fails without averaging anything.
C16_MeansOverCurrentSelection ==
    [][vz_last'.op \in MeanOps =>
          /\ vz_iplot' = vz_iplot
          /\ IF vz_iplot.exists
             THEN VzAveragedOver(vz_last', vz_iplot.kwargs)
             ELSE ~vz_last'.ok /\ vz_last'.err = "AttributeError" /\ vz_last'.means = NoMeans]_vars

\* C16 witness: after interactive() and a selection update to a part of the
\* domain (the second column, both rows), get_forcing_table has averaged
\* over the two cells of that selection.
C16_Witness ==
    /\ vz_last.op = "get_forcing_table"
    /\ vz_last.ok
    /\ vz_iplot.exists
    /\ vz_grid.Nx = 2 /\ vz_grid.Ny = 2
    /\ vz_iplot.kwargs.xlim = <<1, 1>> /\ vz_iplot.kwargs.ylim = <<0, 1>>
    /\ vz_last.means["U"][1] = [sum |-> Value("U", 0, 0, 1) + Value("U", 0, 1, 1), n |-> 2]

=============================================================================
